---- MODULE Spec2Model ----
(***************************************************************************)
(* Treasury contract of the Orbit protocol (treasury/src/contract.rs).     *)
(* The contract keeps a configuration (admin, pegkeeper, loan fee, token   *)
(* and pool addresses) and the counter token_supply; it mints the asset    *)
(* into a lending pool (increase_supply), withdraws and burns it           *)
(* (decrease_supply) and lends it for the length of one invocation         *)
(* (flash_loan).  Every invocation is one host transaction: a panic        *)
(* discards everything the invocation has written.                         *)
(***************************************************************************)
EXTENDS Integers, Sequences, FiniteSets, TLC

\* ------------------------------------------------------------------ bounds
MaxAmount == 2      \* largest amount passed to a call
MaxSupply == 2      \* cap on token_supply (the code has none)
MaxFee    == 1      \* largest loan fee the admin stores

Amounts == (0 - 1) .. MaxAmount
Fees    == (0 - 1) .. MaxFee

\* ------------------------------------------------------------------ addresses
Users    == {"u1", "u2"}          \* identities that can sign an invocation
Treasury == "treasury"            \* e.current_contract_address()
Unset    == "unset"               \* a storage key that was never written
TokenAddr      == "ousd"
BlendAddr      == "pool"
SoroswapAddr   == "soroswap"
CollateralAddr == "xlm"
Holders  == Users \cup {Treasury, BlendAddr}

VARIABLES
  admin,             \* storage: admin
  pegkeeper,         \* storage: pegkeeper (the registered borrower)
  loan_fee,          \* storage: loan fee
  token_supply,      \* storage: token supply (tracked_supply)
  token,             \* storage: token address
  blend,             \* storage: blend pool address
  soroswap,          \* storage: soroswap address
  collateral_token,  \* storage: collateral token address
  balance,           \* the asset's balance of every holder
  positions,         \* Pool.get_positions(treasury).supply: a map index -> amount
  events,            \* the records published by the last invocation
  pc,                \* where the running flash_loan invocation stands
  fl,                \* the locals of the running flash_loan invocation
  saved,             \* the state the host restores when the invocation panics
  last,              \* the last invocation: operation, amount, result
  before,            \* history: the ledger before the last completed supply operation
  net_supply,        \* history: sum of completed increases minus completed decreases
  outer              \* the invocation suspended in its callback while a nested one runs

storage == <<admin, pegkeeper, loan_fee, token_supply, token, blend, soroswap,
             collateral_token>>
ledger  == <<storage, balance, positions>>
vars    == <<ledger, events, pc, fl, saved, last, before, net_supply, outer>>

\* ------------------------------------------------------------------ storage
\* storage::is_init: the admin key has been written
is_init == admin # Unset

Snapshot == [admin |-> admin, pegkeeper |-> pegkeeper, loan_fee |-> loan_fee,
             token_supply |-> token_supply, token |-> token, blend |-> blend,
             soroswap |-> soroswap, collateral_token |-> collateral_token,
             balance |-> balance, positions |-> positions]

NoSnapshot == [admin |-> Unset, pegkeeper |-> Unset, loan_fee |-> 0,
               token_supply |-> 0, token |-> Unset, blend |-> Unset,
               soroswap |-> Unset, collateral_token |-> Unset,
               balance |-> [h \in Holders |-> 0], positions |-> << >>]

\* (nested, nested_fee: how the last flash_loan made from inside the callback
\* ended, and the fee of one that settled)
NoLoan == [amount |-> 0, loan_fee |-> 0, pegkeeper |-> Unset, balance_before |-> 0,
           balance_after |-> 0, grants |-> {}, signer |-> Unset, signed_amount |-> 0,
           nested |-> "none", nested_fee |-> 0]

\* no invocation is suspended (a suspended one is kept as the one element of
\* outer, with its locals and the state the host would restore for it)
NoOuter == << >>

\* What is known of an invocation: the operation, its amount argument, the
\* identities whose proof accompanied it, and how it ended.
Done(op, amount, auths, result) ==
  [op |-> op, amount |-> amount, auths |-> auths, result |-> result]

\* token_supply and the pool position before a completed increase_supply or
\* decrease_supply, while that call is the last thing that happened
\* (prev_op, prev_amount: the supply operation completed right before it)
NoBefore == [op |-> "none", amount |-> 0, token_supply |-> 0, position |-> 0,
             prev_op |-> "none", prev_amount |-> 0]

\* ------------------------------------------------------------------ asset issuer
\* The Stellar asset contract: every operation rejects a negative amount, and
\* burn and transfer reject an amount above the holder's balance.
TokenMintOk(amount) == amount >= 0
TokenMint(bal, to, amount) == [bal EXCEPT ![to] = @ + amount]

TokenBurnOk(bal, from, amount) == amount >= 0 /\ bal[from] >= amount
TokenBurn(bal, from, amount) == [bal EXCEPT ![from] = @ - amount]

TokenTransferOk(bal, from, amount) == amount >= 0 /\ bal[from] >= amount
TokenTransfer(bal, from, to, amount) ==
  [h \in Holders |-> bal[h] + (IF h = to THEN amount ELSE 0)
                            - (IF h = from THEN amount ELSE 0)]

\* ------------------------------------------------------------------ pool
\* positions.supply.get(0): the entry of reserve index 0, when there is one
HasPosition(pos) == 0 \in DOMAIN pos
PositionAmount(pos) == IF HasPosition(pos) THEN pos[0] ELSE 0

\* An authorization grant built by authorize_as_current_contract
Grant(contract, fn_name, args) == [contract |-> contract, fn_name |-> fn_name, args |-> args]

\* Pool.submit of one SUPPLY request (request_type 0): the pool pulls amount of
\* the asset from the spender under the spender's transfer grant and credits
\* the position of `from`.
PoolSupplyOk(bal, grants, amount) ==
  /\ amount >= 0
  /\ Grant(token, "transfer", <<Treasury, blend, amount>>) \in grants
  /\ TokenTransferOk(bal, Treasury, amount)
PoolSupplyPositions(pos, amount) == (0 :> (PositionAmount(pos) + amount))

\* Pool.submit of one WITHDRAW request (request_type 1): the pool debits the
\* position and pays amount of the asset out of its own balance.
PoolWithdrawOk(bal, pos, amount) ==
  /\ amount >= 0
  /\ HasPosition(pos)
  /\ pos[0] >= amount
  /\ TokenTransferOk(bal, BlendAddr, amount)
PoolWithdrawPositions(pos, amount) == (0 :> (pos[0] - amount))

\* ------------------------------------------------------------------ initial state
Init ==
  /\ admin = Unset
  /\ pegkeeper = Unset
  /\ loan_fee = 0
  /\ token_supply = 0
  /\ token = Unset
  /\ blend = Unset
  /\ soroswap = Unset
  /\ collateral_token = Unset
  /\ balance = [h \in Holders |-> 0]
  /\ positions = << >>
  /\ events = << >>
  /\ pc = "idle"
  /\ fl = NoLoan
  /\ saved = NoSnapshot
  /\ last = Done("deploy", 0, {}, "ok")
  /\ before = NoBefore
  /\ net_supply = 0
  /\ outer = NoOuter

\* An invocation that panics: the host discards its writes and its events.
Fail(op, amount, auths, err) ==
  /\ last' = Done(op, amount, auths, err)
  /\ before' = NoBefore
  /\ events' = << >>
  /\ UNCHANGED <<ledger, pc, fl, saved, outer, net_supply>>


\* ------------------------------------------------------------------ ConfigStore
\* Variant: initialize has no guard
InitializeNeverRejected == FALSE

\* if storage::is_init(&e) { panic AlreadyInitializedError }
InitializeRejected == is_init

\* admin.require_auth(): the stored admin's proof accompanies the invocation
AdminAuthorized(auths, current_admin) == current_admin \in auths

\* Variant: only the incoming admin's proof is asked for
SetAdminAuthorizedNewOnly(auths, current_admin, new_admin) == new_admin \in auths

\* admin.require_auth(); new_admin.require_auth()
SetAdminAuthorized(auths, current_admin, new_admin) ==
  current_admin \in auths /\ new_admin \in auths

\* initialize: anyone may call it, once
initialize ==
  \E a \in Users, p \in Users :
    /\ pc = "idle"
    /\ IF InitializeRejected
       THEN Fail("initialize", 0, {}, "AlreadyInitializedError")
       ELSE /\ admin' = a
            /\ blend' = BlendAddr
            /\ soroswap' = SoroswapAddr
            /\ token' = TokenAddr
            /\ collateral_token' = CollateralAddr
            /\ token_supply' = 0
            /\ pegkeeper' = p
            /\ net_supply' = 0
            /\ last' = Done("initialize", 0, {}, "ok")
            /\ before' = NoBefore
            /\ events' = << >>
            /\ UNCHANGED <<loan_fee, balance, positions, pc, fl, saved, outer>>

\* set_admin: the stored admin and the new admin both sign
set_admin ==
  \E auths \in SUBSET Users, new_admin \in Users :
    /\ pc = "idle"
    /\ IF ~is_init THEN Fail("set_admin", 0, auths, "HostError")
       ELSE IF ~SetAdminAuthorized(auths, admin, new_admin)
       THEN Fail("set_admin", 0, auths, "AuthError")
       ELSE /\ admin' = new_admin
            /\ last' = Done("set_admin", 0, auths, "ok")
            /\ before' = NoBefore
            /\ UNCHANGED <<pegkeeper, loan_fee, token_supply, token, blend, soroswap,
                           collateral_token, balance, positions, pc, fl,
                           saved, outer, net_supply>>
            /\ events' = << >>

\* set_pegkeeper: the stored admin signs
set_pegkeeper ==
  \E auths \in SUBSET Users, new_pegkeeper \in Users :
    /\ pc = "idle"
    /\ IF ~is_init THEN Fail("set_pegkeeper", 0, auths, "HostError")
       ELSE IF ~AdminAuthorized(auths, admin)
       THEN Fail("set_pegkeeper", 0, auths, "AuthError")
       ELSE /\ pegkeeper' = new_pegkeeper
            /\ last' = Done("set_pegkeeper", 0, auths, "ok")
            /\ before' = NoBefore
            /\ UNCHANGED <<admin, loan_fee, token_supply, token, blend, soroswap,
                           collateral_token, balance, positions, pc, fl,
                           saved, outer, net_supply>>
            /\ events' = << >>

\* set_loan_fee: the stored admin signs; any integer is stored
set_loan_fee ==
  \E auths \in SUBSET Users, new_loan_fee \in Fees :
    /\ pc = "idle"
    /\ IF ~is_init THEN Fail("set_loan_fee", new_loan_fee, auths, "HostError")
       ELSE IF ~AdminAuthorized(auths, admin)
       THEN Fail("set_loan_fee", new_loan_fee, auths, "AuthError")
       ELSE /\ loan_fee' = new_loan_fee
            /\ last' = Done("set_loan_fee", new_loan_fee, auths, "ok")
            /\ before' = NoBefore
            /\ UNCHANGED <<admin, pegkeeper, token_supply, token, blend, soroswap,
                           collateral_token, balance, positions, pc, fl,
                           saved, outer, net_supply>>
            /\ events' = << >>

\* ------------------------------------------------------------------ SupplyManager
\* Variant: the amount is counted twice
IncreasedSupplyTwice(supply, amount) == supply + amount + amount

\* Variant: the amount is subtracted
IncreasedSupplyNegated(supply, amount) == supply - amount

\* Variant: the counter is overwritten with the amount
IncreasedSupplyOverwrite(supply, amount) == amount

\* let new_supply = supply + amount
IncreasedSupply(supply, amount) == supply + amount

\* Variant: the comparison is the wrong way round
SupplyInsufficientReversed(supply, amount) == supply > amount

\* if supply < amount { panic SupplyError }
SupplyInsufficient(supply, amount) == supply < amount

\* if position_amount < amount { panic SupplyError }
PositionInsufficient(position_amount, amount) == position_amount < amount

\* Variant: the lowered supply is not stored
DecreasedSupplyUnchanged(supply, amount) == supply

\* Variant: the operands are exchanged
DecreasedSupplySwapped(supply, amount) == amount - supply

\* let new_supply = supply - amount
DecreasedSupply(supply, amount) == supply - amount

\* the grant increase_supply builds: token.transfer(treasury, blend, amount)
TransferGrant(amount) == Grant(token, "transfer", <<Treasury, blend, amount>>)

\* (pool_accepts: the pool may turn a request down for reasons of its own)
increase_supply ==
  \E auths \in SUBSET Users, amount \in Amounts :
    /\ pc = "idle"
    /\ token_supply + amount <= MaxSupply
    /\ IF ~is_init THEN Fail("increase_supply", amount, auths, "HostError")
       ELSE IF ~AdminAuthorized(auths, admin)
       THEN Fail("increase_supply", amount, auths, "AuthError")
       ELSE IF ~TokenMintOk(amount) THEN Fail("increase_supply", amount, auths, "TokenError")
       ELSE LET minted == TokenMint(balance, Treasury, amount)
                grants == {TransferGrant(amount)}
            IN \E pool_accepts \in BOOLEAN :
                 IF ~(pool_accepts /\ PoolSupplyOk(minted, grants, amount))
                 THEN Fail("increase_supply", amount, auths, "PoolError")
                 ELSE /\ balance' = TokenTransfer(minted, Treasury, blend, amount)
                      /\ positions' = PoolSupplyPositions(positions, amount)
                      /\ token_supply' = IncreasedSupply(token_supply, amount)
                      /\ net_supply' = net_supply + amount
                      /\ last' = Done("increase_supply", amount, auths, "ok")
                      /\ before' = [op |-> "increase_supply", amount |-> amount,
                                    token_supply |-> token_supply,
                                    position |-> PositionAmount(positions),
                                    prev_op |-> before.op, prev_amount |-> before.amount]
                      /\ events' = << >>
                      /\ UNCHANGED <<admin, pegkeeper, loan_fee, token, blend, soroswap,
                                     collateral_token, pc, fl, saved, outer>>

decrease_supply ==
  \E auths \in SUBSET Users, amount \in Amounts :
    /\ pc = "idle"
    /\ IF ~is_init THEN Fail("decrease_supply", amount, auths, "HostError")
       ELSE IF ~AdminAuthorized(auths, admin)
       THEN Fail("decrease_supply", amount, auths, "AuthError")
       ELSE IF SupplyInsufficient(token_supply, amount)
       THEN Fail("decrease_supply", amount, auths, "SupplyError")
       ELSE IF ~HasPosition(positions)
       THEN Fail("decrease_supply", amount, auths, "HostError")   \* position.get(0).unwrap()
       ELSE IF PositionInsufficient(positions[0], amount)
       THEN Fail("decrease_supply", amount, auths, "SupplyError")
       ELSE IF ~PoolWithdrawOk(balance, positions, amount)
       THEN Fail("decrease_supply", amount, auths, "PoolError")
       ELSE LET withdrawn == TokenTransfer(balance, blend, Treasury, amount)
            IN IF ~TokenBurnOk(withdrawn, Treasury, amount)
               THEN Fail("decrease_supply", amount, auths, "TokenError")
               ELSE /\ balance' = TokenBurn(withdrawn, Treasury, amount)
                    /\ positions' = PoolWithdrawPositions(positions, amount)
                    /\ token_supply' = DecreasedSupply(token_supply, amount)
                    /\ net_supply' = net_supply - amount
                    /\ last' = Done("decrease_supply", amount, auths, "ok")
                    /\ before' = [op |-> "decrease_supply", amount |-> amount,
                                  token_supply |-> token_supply,
                                  position |-> PositionAmount(positions),
                                  prev_op |-> before.op, prev_amount |-> before.amount]
                    /\ events' = << >>
                    /\ UNCHANGED <<admin, pegkeeper, loan_fee, token, blend, soroswap,
                                   collateral_token, pc, fl, saved, outer>>

\* ------------------------------------------------------------------ FlashLoanOrchestrator
\* Variant: the borrower's identity is checked, not the arguments it signed
BorrowerAuthorizedAnyArgs(signer, signed_args, borrower, amount) ==
  signer = borrower

\* pegkeeper.require_auth_for_args((token, amount)): the invocation carries the
\* registered borrower's authorization for exactly these arguments
BorrowerAuthorized(signer, signed_args, borrower, amount) ==
  signer = borrower /\ signed_args = <<token, amount>>

\* Variant: the check reads the stored fee again
LoanRepaidStoredFee(balance_before, balance_after, amount, fee) ==
  balance_after >= balance_before + amount + loan_fee

\* Variant: the fee is left out of the check
LoanRepaidNoFee(balance_before, balance_after, amount, fee) ==
  balance_after >= balance_before + amount

\* Variant: the principal is left out of the check
LoanRepaidNoPrincipal(balance_before, balance_after, amount, fee) ==
  balance_after >= balance_before + fee

\* if balance_after >= balance_before + amount + loan_fee
LoanRepaid(balance_before, balance_after, amount, fee) ==
  balance_after >= balance_before + amount + fee

\* Variant: the mint grant is for one unit more than the loan
MintGrantLoose(borrower, amount) == Grant(token, "mint", <<Treasury, borrower, amount + 1>>)

\* the two grants flash_loan builds: token.mint(treasury, pegkeeper, amount) and
\* token.burn(treasury, amount)
MintGrant(borrower, amount) == Grant(token, "mint", <<Treasury, borrower, amount>>)
BurnGrant(amount) == Grant(token, "burn", <<Treasury, amount>>)

\* Variant: the burn is left out
SettleBurnNone(bal, amount) == bal

\* Variant: the treasury burns all it holds
SettleBurnAll(bal, amount) == [bal EXCEPT ![Treasury] = 0]

\* token_client.burn(&e.current_contract_address(), &amount)
SettleBurn(bal, amount) == TokenBurn(bal, Treasury, amount)

\* Variant: the record carries the fee first
LoanEventSwapped(amount, fee) == <<fee, amount>>

\* e.events().publish((FLASH_LOAN, "flashloan"), (amount, loan_fee))
LoanEvent(amount, fee) == <<amount, fee>>

\* Variant: control goes from the callback straight to the burn
AfterCallbackToBurn == "verified"

\* where control is when flashloan_receive has returned: at the read of
\* balance_after and the check
AfterCallback == "returned"

\* The host's check of a call made under the treasury's authority: a grant for
\* exactly this call is held and has not been used; the call uses it up.
GrantLive(grants, g) == g \in grants
GrantUse(grants, g) == grants \ {g}

\* The running invocation panics: the host restores the state it started from.
Abort(err) ==
  /\ admin' = saved.admin
  /\ pegkeeper' = saved.pegkeeper
  /\ loan_fee' = saved.loan_fee
  /\ token_supply' = saved.token_supply
  /\ token' = saved.token
  /\ blend' = saved.blend
  /\ soroswap' = saved.soroswap
  /\ collateral_token' = saved.collateral_token
  /\ balance' = saved.balance
  /\ positions' = saved.positions
  /\ IF outer = NoOuter
     THEN /\ events' = << >>
          /\ pc' = "idle"
          /\ fl' = NoLoan
          /\ saved' = NoSnapshot
          /\ last' = Done("flash_loan", fl.amount, {fl.signer}, err)
          /\ outer' = outer
     ELSE \* a nested invocation failed: control is back in the callback of the
          \* suspended one
          /\ events' = events
          /\ pc' = "minted"
          /\ fl' = [outer[1].fl EXCEPT !.nested = "aborted", !.nested_fee = 0]
          /\ saved' = outer[1].saved
          /\ last' = last
          /\ outer' = NoOuter
  /\ UNCHANGED <<before, net_supply>>

\* flash_loan, up to the read of balance_before: storage reads, the borrower's
\* authorization, the two grants
flash_loan_prepare ==
  \E signer \in Users, signed_amount \in Amounts, amount \in Amounts :
    /\ pc = "idle"
    /\ IF ~is_init THEN Fail("flash_loan", amount, {signer}, "HostError")
       ELSE IF ~BorrowerAuthorized(signer, <<token, signed_amount>>, pegkeeper, amount)
       THEN Fail("flash_loan", amount, {signer}, "AuthError")
       ELSE /\ fl' = [amount |-> amount, loan_fee |-> loan_fee, pegkeeper |-> pegkeeper,
                      balance_before |-> balance[Treasury], balance_after |-> 0,
                      grants |-> {MintGrant(pegkeeper, amount), BurnGrant(amount)},
                      signer |-> signer, signed_amount |-> signed_amount,
                      nested |-> "none", nested_fee |-> 0]
            /\ saved' = Snapshot
            /\ pc' = "prepared"
            /\ events' = << >>
            /\ last' = Done("flash_loan", amount, {signer}, "running")
            /\ before' = NoBefore
            /\ UNCHANGED <<ledger, net_supply, outer>>

\* token_admin.mint(&pegkeeper, &amount)
flash_loan_mint ==
  /\ pc = "prepared"
  /\ IF ~GrantLive(fl.grants, Grant(token, "mint", <<Treasury, fl.pegkeeper, fl.amount>>))
     THEN Abort("AuthError")
     ELSE IF ~TokenMintOk(fl.amount)
     THEN Abort("TokenError")
     ELSE /\ balance' = TokenMint(balance, fl.pegkeeper, fl.amount)
          /\ fl' = [fl EXCEPT !.grants =
                      GrantUse(@, Grant(token, "mint", <<Treasury, fl.pegkeeper, fl.amount>>))]
          /\ pc' = "minted"
          /\ UNCHANGED <<storage, positions, events, saved, outer, last, before, net_supply>>

\* pegkeeper_client.flashloan_receive(...): the borrower's callback either
\* panics or returns after moving some of its balance to the treasury
flashloan_receive ==
  /\ pc = "minted"
  /\ \/ Abort("HostError")
     \/ \E repay \in 0 .. balance[fl.pegkeeper] :
          /\ balance' = TokenTransfer(balance, fl.pegkeeper, Treasury, repay)
          /\ pc' = AfterCallback
          /\ UNCHANGED <<storage, positions, events, fl, saved, outer, last, before, net_supply>>

\* balance_after and the check against balance_before + amount + loan_fee
flash_loan_verify ==
  /\ pc = "returned"
  /\ LET balance_after == balance[Treasury]
     IN IF LoanRepaid(fl.balance_before, balance_after, fl.amount, fl.loan_fee)
        THEN /\ fl' = [fl EXCEPT !.balance_after = balance_after]
             /\ pc' = "verified"
             /\ UNCHANGED <<ledger, events, saved, outer, last, before, net_supply>>
        ELSE Abort("FlashloanFailedError")

\* token_client.burn(treasury, amount) and the FLASHLOAN event
flash_loan_settle ==
  /\ pc = "verified"
  /\ IF ~GrantLive(fl.grants, Grant(token, "burn", <<Treasury, fl.amount>>))
     THEN Abort("AuthError")
     ELSE IF ~TokenBurnOk(balance, Treasury, fl.amount)
     THEN Abort("TokenError")
     ELSE /\ balance' = SettleBurn(balance, fl.amount)
          /\ events' = Append(events, LoanEvent(fl.amount, fl.loan_fee))
          /\ IF outer = NoOuter
             THEN /\ pc' = "idle"
                  /\ fl' = NoLoan
                  /\ saved' = NoSnapshot
                  /\ last' = Done("flash_loan", fl.amount, {fl.signer}, "ok")
                  /\ outer' = outer
             ELSE \* a nested invocation returns into the callback of the
                  \* suspended one
                  /\ pc' = "minted"
                  /\ fl' = [outer[1].fl EXCEPT !.nested = "settled",
                                            !.nested_fee = fl.loan_fee]
                  /\ saved' = outer[1].saved
                  /\ last' = last
                  /\ outer' = NoOuter
          /\ UNCHANGED <<storage, positions, before, net_supply>>

\* ------------------------------------------------------------------ calls made from inside the callback
\* The callback calls mint or burn of the asset in the treasury's name, with
\* arguments of its own choice. The host lets the call through when a grant
\* for exactly this call is held unused (it may refuse it even then); a call
\* that is refused has no effect.
reentrant_token_call ==
  \E fn_name \in {"mint", "burn"}, to \in Users, amount \in 0 .. MaxAmount,
     host_accepts \in BOOLEAN :
    /\ pc = "minted"
    /\ LET args == IF fn_name = "mint" THEN <<Treasury, to, amount>>
                   ELSE <<Treasury, amount>>
           g == Grant(token, fn_name, args)
           granted == /\ host_accepts
                      /\ GrantLive(fl.grants, g)
                      /\ fn_name = "burn" => TokenBurnOk(balance, Treasury, amount)
       IN /\ fn_name = "burn" => to = fl.pegkeeper
          /\ IF granted
             THEN /\ balance' = IF fn_name = "mint" THEN TokenMint(balance, to, amount)
                                 ELSE TokenBurn(balance, Treasury, amount)
                  /\ fl' = [fl EXCEPT !.grants = GrantUse(@, g)]
             ELSE UNCHANGED <<balance, fl>>
    /\ UNCHANGED <<storage, positions, events, pc, saved, outer, last, before, net_supply>>

\* set_pegkeeper called from inside the callback, with the admin's proof
reentrant_set_pegkeeper ==
  \E auths \in SUBSET Users, new_pegkeeper \in Users :
    /\ pc = "minted"
    /\ AdminAuthorized(auths, admin)
    /\ new_pegkeeper # pegkeeper
    /\ pegkeeper' = new_pegkeeper
    /\ UNCHANGED <<admin, loan_fee, token_supply, token, blend, soroswap,
                   collateral_token, balance, positions, events, pc, fl, saved,
                   outer, last, before, net_supply>>

\* set_loan_fee called from inside the callback, with the admin's proof
reentrant_set_loan_fee ==
  \E auths \in SUBSET Users, new_loan_fee \in Fees :
    /\ pc = "minted"
    /\ AdminAuthorized(auths, admin)
    /\ new_loan_fee # loan_fee
    /\ loan_fee' = new_loan_fee
    /\ UNCHANGED <<admin, pegkeeper, token_supply, token, blend, soroswap,
                   collateral_token, balance, positions, events, pc, fl, saved,
                   outer, last, before, net_supply>>

\* flash_loan called by the borrower from inside its callback: the running
\* invocation is suspended and a nested one starts (one nested invocation for
\* each callback, and none inside a nested one)
reentrant_flash_loan ==
  \E amount \in Amounts :
    /\ pc = "minted"
    /\ outer = NoOuter
    /\ fl.nested = "none"
    /\ BorrowerAuthorized(fl.pegkeeper, <<token, amount>>, pegkeeper, amount)
    /\ outer' = << [fl |-> fl, saved |-> saved] >>
    /\ fl' = [amount |-> amount, loan_fee |-> loan_fee, pegkeeper |-> pegkeeper,
              balance_before |-> balance[Treasury], balance_after |-> 0,
              grants |-> {MintGrant(pegkeeper, amount), BurnGrant(amount)},
              signer |-> fl.pegkeeper, signed_amount |-> amount,
              nested |-> "none", nested_fee |-> 0]
    /\ saved' = Snapshot
    /\ pc' = "prepared"
    /\ UNCHANGED <<ledger, events, last, before, net_supply>>

\* ------------------------------------------------------------------ environment
\* A holder of the asset transfers some of it (SEP-41 transfer).
transfer ==
  \E from \in Users, to \in Holders, amount \in 1 .. MaxAmount :
    /\ pc = "idle"
    /\ from # to
    /\ TokenTransferOk(balance, from, amount)
    /\ balance' = TokenTransfer(balance, from, to, amount)
    /\ last' = Done("transfer", amount, {}, "ok")
    /\ before' = NoBefore
    /\ events' = << >>
    /\ UNCHANGED <<storage, positions, pc, fl, saved, outer, net_supply>>

\* A user borrows the asset from the pool (a Borrow request of Pool.submit).
pool_borrow ==
  \E user \in Users, amount \in 1 .. MaxAmount :
    /\ pc = "idle"
    /\ is_init
    /\ TokenTransferOk(balance, BlendAddr, amount)
    /\ balance' = TokenTransfer(balance, BlendAddr, user, amount)
    /\ last' = Done("pool_borrow", amount, {}, "ok")
    /\ before' = NoBefore
    /\ events' = << >>
    /\ UNCHANGED <<storage, positions, pc, fl, saved, outer, net_supply>>

\* The pool's own accounting lowers the supplied position it reports for the
\* treasury, or drops the entry of reserve index 0 (the position is kept by
\* the pool, in its own units and under its own reserve order).
pool_accounting ==
  \E pos \in {<< >>} \cup {(0 :> v) : v \in 0 .. (PositionAmount(positions) - 1)} :
    /\ pc = "idle"
    /\ HasPosition(positions)
    /\ positions' = pos
    /\ last' = Done("pool_accounting", 0, {}, "ok")
    /\ before' = NoBefore
    /\ events' = << >>
    /\ UNCHANGED <<storage, balance, pc, fl, saved, outer, net_supply>>

Next ==
  \/ initialize
  \/ set_admin
  \/ set_pegkeeper
  \/ set_loan_fee
  \/ increase_supply
  \/ decrease_supply
  \/ flash_loan_prepare
  \/ flash_loan_mint
  \/ flashloan_receive
  \/ flash_loan_verify
  \/ flash_loan_settle
  \/ transfer
  \/ pool_borrow
  \/ pool_accounting

Spec == Init /\ [][Next]_vars

\* Sequences of calls in which the pool's report of the treasury's position
\* changes through the treasury's own requests only.
NextTreasury ==
  \/ initialize
  \/ set_admin
  \/ set_pegkeeper
  \/ set_loan_fee
  \/ increase_supply
  \/ decrease_supply
  \/ flash_loan_prepare
  \/ flash_loan_mint
  \/ flashloan_receive
  \/ flash_loan_verify
  \/ flash_loan_settle
  \/ transfer
  \/ pool_borrow

SpecTreasury == Init /\ [][NextTreasury]_vars

\* The treasury's calls when the borrower's callback may call the asset in the
\* treasury's name and the treasury's configuration setters.
NextReentrant ==
  \/ initialize
  \/ set_loan_fee
  \/ increase_supply
  \/ pool_borrow
  \/ flash_loan_prepare
  \/ flash_loan_mint
  \/ flashloan_receive
  \/ flash_loan_verify
  \/ flash_loan_settle
  \/ reentrant_token_call
  \/ reentrant_set_pegkeeper
  \/ reentrant_set_loan_fee

SpecReentrant == Init /\ [][NextReentrant]_vars

\* The treasury's calls when the borrower's callback may call flash_loan.
NextNested ==
  \/ initialize
  \/ set_loan_fee
  \/ increase_supply
  \/ pool_borrow
  \/ flash_loan_prepare
  \/ flash_loan_mint
  \/ flashloan_receive
  \/ flash_loan_verify
  \/ flash_loan_settle
  \/ reentrant_flash_loan

SpecNested == Init /\ [][NextNested]_vars

\* An invocation is one host call that runs to its end: a step of a running
\* flash_loan that can be taken is taken, the callback included (it returns
\* or fails).
SpecFair ==
  /\ SpecTreasury
  /\ WF_vars(flash_loan_mint)
  /\ WF_vars(flashloan_receive)
  /\ WF_vars(flash_loan_verify)
  /\ WF_vars(flash_loan_settle)

\* ------------------------------------------------------------------ properties
RECURSIVE SumOver(_, _)
SumOver(bal, hs) ==
  IF hs = {} THEN 0
  ELSE LET h == CHOOSE x \in hs : TRUE IN bal[h] + SumOver(bal, hs \ {h})

\* the amount of the asset in existence
TotalAsset(bal) == SumOver(bal, Holders)

Running == pc # "idle"

\* the step that ends a flash_loan invocation, and the one that ends it well
LoanEnds    == Running /\ pc' = "idle" /\ last'.op = "flash_loan"
LoanSettles == LoanEnds /\ last'.result = "ok"

\* C1: when the borrower callback has returned and the treasury holds less than
\* its balance before the call plus amount plus fee, the invocation ends with
\* FlashloanFailedError, and token_supply and every balance of the asset (the
\* treasury's and the borrower's among them) are what they were before the call.
C1_FailedLoanIsUndone ==
  [][ (pc = "returned"
        /\ balance[Treasury] < saved.balance[Treasury] + fl.amount + fl.loan_fee)
      => /\ LoanEnds
         /\ last'.result = "FlashloanFailedError"
         /\ last'.amount = fl.amount
         /\ token_supply' = saved.token_supply
         /\ balance'[Treasury] = saved.balance[Treasury]
         /\ balance'[fl.pegkeeper] = saved.balance[fl.pegkeeper]
         /\ balance' = saved.balance
         /\ positions' = saved.positions ]_vars

\* a loan with a positive fee failed its balance check although the principal
\* had been returned
C1_Witness ==
  /\ last.op = "flash_loan"
  /\ last.result = "FlashloanFailedError"
  /\ last.amount > 0
  /\ loan_fee > 0

\* C2: a flash_loan invocation ends in success only from the verified state and
\* only when the treasury's balance at the callback's return is at least its
\* balance before the mint plus amount plus fee.
C2_SuccessOnlyIfRepaid ==
  [][ (last'.op = "flash_loan" /\ last'.result = "ok")
      => /\ pc = "verified"
         /\ fl.balance_before = saved.balance[Treasury]
         /\ fl.loan_fee = saved.loan_fee
         /\ balance[Treasury] >= saved.balance[Treasury] + fl.amount + fl.loan_fee ]_vars

\* a loan of a positive amount with a positive fee has settled
C2_Witness ==
  /\ pc = "idle"
  /\ last.op = "flash_loan"
  /\ last.result = "ok"
  /\ last.amount > 0
  /\ Len(events) = 1
  /\ events[1][2] > 0

\* C3: the step that settles a loan takes exactly amount from the treasury's
\* balance and touches no other balance; the treasury ends with balance_after
\* minus amount, which is at least balance_before plus fee.
C3_BurnsExactlyAmount ==
  [][ LoanSettles
      => /\ fl.balance_after = balance[Treasury]
         /\ balance'[Treasury] = fl.balance_after - fl.amount
         /\ \A h \in Holders \ {Treasury} : balance'[h] = balance[h]
         /\ balance'[Treasury] >= saved.balance[Treasury] + fl.loan_fee
         /\ TotalAsset(balance') = TotalAsset(saved.balance) ]_vars

\* a settled loan left the treasury with the fee it was paid
C3_Witness ==
  /\ pc = "idle"
  /\ last.op = "flash_loan"
  /\ last.result = "ok"
  /\ last.amount > 0
  /\ balance[Treasury] > 0

\* C4: an invocation of flash_loan that succeeds has published exactly one
\* record, (amount, fee) with the fee of its balance check; one that is running
\* or has failed has published none.
C4_OneRecordPerSuccess ==
  [][ last'.op = "flash_loan"
      => IF last'.result = "ok"
         THEN events' = << <<fl.amount, fl.loan_fee>> >> /\ last'.amount = fl.amount
         ELSE events' = << >> ]_vars

\* the record of a settled loan whose amount and fee differ
C4_Witness ==
  /\ pc = "idle"
  /\ last.op = "flash_loan"
  /\ last.result = "ok"
  /\ events = << <<2, 1>> >>

\* the authorization the running invocation came with is the registered
\* borrower's, for exactly (token, amount)
LoanAuthorized ==
  /\ fl.signer = pegkeeper
  /\ fl.pegkeeper = pegkeeper
  /\ fl.signed_amount = fl.amount

\* C5: no flash_loan invocation gets past its entry unless it carries the
\* registered borrower's authorization for exactly (token, amount), and the
\* asset is minted by flash_loan only in an invocation that has passed it.
C5_NoMintWithoutBorrowerAuth ==
  [][ /\ (Running' => LoanAuthorized')
      /\ ((last'.op = "flash_loan" /\ TotalAsset(balance') > TotalAsset(balance))
           => (pc = "prepared" /\ LoanAuthorized)) ]_vars

\* a flash_loan call of a positive amount was rejected at the entry; nothing
\* was minted
C5_Witness ==
  /\ last.op = "flash_loan"
  /\ last.result = "AuthError"
  /\ last.amount > 0
  /\ last.auths = {pegkeeper}

\* the step of a decrease_supply call made on the initialized contract
DecreaseCall == is_init /\ pc = "idle" /\ last'.op = "decrease_supply"

\* C6: a decrease_supply(amount) call with amount > token_supply fails and
\* changes neither the storage, nor a balance, nor the pool position; when it
\* carries the admin's proof it fails with SupplyError.
C6_AboveTrackedSupplyFails ==
  [][ (DecreaseCall /\ last'.amount > token_supply)
      => /\ last'.result # "ok"
         /\ (admin \in last'.auths => last'.result = "SupplyError")
         /\ UNCHANGED <<ledger, net_supply>> ]_vars

\* the admin asked for more than a positive token_supply
C6_Witness ==
  /\ last.op = "decrease_supply"
  /\ last.result = "SupplyError"
  /\ admin \in last.auths
  /\ token_supply > 0
  /\ last.amount > token_supply

\* C7: a decrease_supply(amount) call of the admin with amount <= token_supply
\* fails with SupplyError when the pool reports a supplied position below
\* amount, a missing position counting as none supplied.
C7_BelowPositionIsSupplyError ==
  [][ (DecreaseCall /\ admin \in last'.auths /\ last'.amount <= token_supply
        /\ PositionAmount(positions) < last'.amount)
      => /\ last'.result = "SupplyError"
         /\ UNCHANGED <<ledger, net_supply>> ]_vars

C9_SupplyIsNetOfCompleted == token_supply = net_supply

\* a decrease completed after increases, and a positive net remains
C9_Witness ==
  /\ last.op = "decrease_supply"
  /\ last.result = "ok"
  /\ last.amount > 0
  /\ net_supply > 0

Opposite(op) ==
  IF op = "increase_supply" THEN "decrease_supply" ELSE "increase_supply"

SupplyCall == pc = "idle" /\ last'.op \in {"increase_supply", "decrease_supply"}

\* C11: a successful increase_supply(amount) raises token_supply and the
\* amount of the pool position by amount, a successful decrease_supply(amount)
\* lowers both by amount; a call that fails at any step leaves the pool
\* position, every balance and token_supply as they were.
C11_SupplyCallsAtomic ==
  [][ SupplyCall
      => IF last'.result = "ok"
         THEN LET d == IF last'.op = "increase_supply"
                       THEN last'.amount ELSE 0 - last'.amount
              IN /\ token_supply' = token_supply + d
                 /\ PositionAmount(positions') = PositionAmount(positions) + d
         ELSE UNCHANGED <<token_supply, positions, balance>> ]_vars

\* the pool turned down the request of an increase_supply whose mint had gone
\* through, and the treasury holds nothing of the minted amount
C11_Witness ==
  /\ last.op = "increase_supply"
  /\ last.result = "PoolError"
  /\ last.amount > 0
  /\ balance[Treasury] = 0
  /\ token_supply > 0

\* a call of one of the configuration setters
ConfigCall == pc = "idle" /\ last'.op \in {"set_admin", "set_pegkeeper", "set_loan_fee"}

\* a call that only the admin may make
PrivilegedCall ==
  /\ pc = "idle"
  /\ last'.op \in {"set_admin", "set_pegkeeper", "set_loan_fee",
                   "increase_supply", "decrease_supply"}

\* C13: set_admin, set_pegkeeper and set_loan_fee succeed only with the proof
\* of the stored admin, set_admin only with the proof of the incoming admin as
\* well; a call that lacks one fails and leaves admin, borrower and fee as they
\* were; every privileged call succeeds only with the proof of the admin stored
\* at that time (after set_admin, the new one).
C13_ConfigNeedsAdminProof ==
  [][ /\ ConfigCall
         => IF last'.result = "ok"
            THEN /\ admin \in last'.auths
                 /\ last'.op = "set_admin" => admin' \in last'.auths
                 /\ last'.op # "set_admin" => admin' = admin
            ELSE UNCHANGED <<admin, pegkeeper, loan_fee>>
      /\ (PrivilegedCall /\ last'.result = "ok") => admin \in last'.auths ]_vars

\* set_admin came with the proof of the stored admin alone and failed
C13_Witness ==
  /\ last.op = "set_admin"
  /\ last.result = "AuthError"
  /\ last.auths = {admin}

\* C14: on an initialized contract every initialize fails with
\* AlreadyInitializedError and changes nothing (token_supply is not reset).
C14_InitializeOnce ==
  [][ (is_init /\ last'.op = "initialize")
      => /\ last'.result = "AlreadyInitializedError"
         /\ UNCHANGED <<ledger, net_supply>> ]_vars

\* a second initialize was refused while the tracked supply was positive
C14_Witness ==
  /\ last.op = "initialize"
  /\ last.result = "AlreadyInitializedError"
  /\ token_supply > 0

\* C15: after any sequence of treasury calls, token_supply is at most the
\* amount of the position the pool reports for the treasury.
C15_SupplyWithinPosition == token_supply <= PositionAmount(positions)

\* a decrease_supply of a positive amount has completed and supply remains
C15_Witness ==
  /\ last.op = "decrease_supply"
  /\ last.result = "ok"
  /\ last.amount > 0
  /\ token_supply > 0
  /\ PositionAmount(positions) = token_supply

\* the order of the steps of flash_loan
StepOrder ==
  { <<"idle", "prepared">>, <<"prepared", "minted">>, <<"minted", "returned">>,
    <<"returned", "verified">>, <<"verified", "idle">> }

\* C16: a flash_loan passes through its steps in the order authorization and
\* grants, mint, callback, balance check, burn and record, leaving that order
\* only by failing; the asset is minted in the mint step only; the burn and
\* the record happen only from the state in which the check, made after the
\* callback returned, has passed; when the callback has returned, the only
\* step is the balance check.
C16_StepsInOrder ==
  [][ /\ events' # << >> => pc = "verified"
      /\ (Running \/ Running')
         => /\ pc' # pc
               => \/ <<pc, pc'>> \in StepOrder
                  \/ pc' = "idle" /\ last'.result \notin {"ok", "running"}
            /\ last'.result = "ok" => pc = "verified"
            /\ TotalAsset(balance') > TotalAsset(balance)
               => pc = "prepared" /\ pc' = "minted"
            /\ (last'.result \in {"ok", "running"}
                  /\ TotalAsset(balance') < TotalAsset(balance))
               => pc = "verified"
            /\ pc = "verified"
               => LoanRepaid(fl.balance_before, fl.balance_after, fl.amount, fl.loan_fee)
            /\ pc = "returned"
               => \/ pc' = "verified" /\ fl'.balance_after = balance[Treasury]
                  \/ pc' = "idle" /\ last'.result = "FlashloanFailedError" ]_vars

\* the balance check has passed and the burn has not yet been made
C16_Witness ==
  /\ pc = "verified"
  /\ fl.amount > 0
  /\ fl.balance_after >= fl.balance_before + fl.amount + fl.loan_fee
  /\ TotalAsset(balance) = token_supply + fl.amount

\* the invocation has ended with all of its effects: the record, the fee kept
\* by the treasury, no asset more or less than before
Settled ==
  /\ last'.result = "ok"
  /\ events' = << <<fl.amount, fl.loan_fee>> >>
  /\ TotalAsset(balance') = TotalAsset(saved.balance)
  /\ token_supply' = saved.token_supply

\* the invocation has ended with none of its effects
Aborted ==
  /\ last'.result \notin {"ok", "running"}
  /\ events' = << >>
  /\ ledger' = <<<<saved.admin, saved.pegkeeper, saved.loan_fee, saved.token_supply,
                   saved.token, saved.blend, saved.soroswap, saved.collateral_token>>,
                 saved.balance, saved.positions>>

\* C17: every flash_loan invocation ends, settled with all of its effects or
\* aborted with none; when no invocation runs, nothing records a pending loan
\* and no minted asset is outstanding beyond the tracked supply.
C17_LoanEnds ==
  /\ Running ~> (pc = "idle" /\ last.op = "flash_loan" /\ last.result # "running")
  /\ [][LoanEnds => (Settled \/ Aborted)]_vars
  /\ [](pc = "idle" => /\ fl = NoLoan
                       /\ saved = NoSnapshot
                       /\ TotalAsset(balance) = token_supply)

\* a loan that failed its balance check has ended aborted
C17_Witness ==
  /\ pc = "idle"
  /\ last.op = "flash_loan"
  /\ last.result = "FlashloanFailedError"
  /\ fl = NoLoan
  /\ token_supply > 0

\* C19: a flash_loan that succeeds leaves the treasury with at least the
\* balance it had before the call, and burns no more than the borrower
\* returned during the callback.
C19_TreasuryNeverPoorer ==
  [][ LoanSettles
      => /\ balance'[Treasury] >= saved.balance[Treasury]
         /\ fl.amount <= fl.balance_after - fl.balance_before ]_vars

\* C12: the grants of a flash_loan are the mint of exactly amount to the
\* borrower and the burn of exactly amount from the treasury; a grant is used
\* at most once and none is added; during the callback the asset's balances
\* change under the treasury's authority only by the granted burn, once, so a
\* mint or burn with other arguments or a second use has no effect; the
\* invocation never has more than amount of the asset minted; when it has
\* ended no grant is left.
C12_GrantsExactSingleUse ==
  [][ /\ pc' = "prepared"
         => fl'.grants = { Grant(token', "mint", <<Treasury, fl'.pegkeeper, fl'.amount>>),
                           Grant(token', "burn", <<Treasury, fl'.amount>>) }
      /\ (Running /\ pc' # "prepared" /\ pc' # "idle" /\ outer' = outer)
         => fl'.grants \subseteq fl.grants
      /\ (pc = "minted" /\ pc' = "minted" /\ outer' = outer /\ balance' # balance)
         => /\ Grant(token, "burn", <<Treasury, fl.amount>>) \in fl.grants
            /\ Grant(token, "burn", <<Treasury, fl.amount>>) \notin fl'.grants
            /\ balance' = [balance EXCEPT ![Treasury] = @ - fl.amount]
      /\ pc' \in {"minted", "returned", "verified"}
         => TotalAsset(balance') <= TotalAsset(saved'.balance) + fl'.amount
      /\ pc' = "idle" => fl'.grants = {} ]_vars

\* inside the callback the burn grant has been used, on top of the treasury's
\* use of the mint grant
C12_Witness ==
  /\ pc = "minted"
  /\ fl.amount > 0
  /\ fl.grants = {}
  /\ TotalAsset(balance) = TotalAsset(saved.balance)

\* C18: when a flash_loan made from inside the callback of a running
\* flash_loan has settled and the running one settles too, the treasury holds
\* at least its balance before the running one plus both fees.
C18_NestedFeesAccumulate ==
  [][ (LoanSettles /\ fl.nested = "settled")
      => balance'[Treasury] >= saved.balance[Treasury] + fl.loan_fee + fl.nested_fee ]_vars

\* C20: the authorization a flash_loan requires, the recipient of its mint
\* and the party its callback is run by are the borrower stored when the
\* invocation started; the fee of the balance check and of the record is the
\* fee stored when it started; neither changes while the invocation runs,
\* whatever is stored during the callback.
C20_BorrowerAndFeeFixed ==
  [][ /\ pc' = "prepared"
         => /\ fl'.pegkeeper = pegkeeper /\ fl'.signer = pegkeeper
            /\ fl'.loan_fee = loan_fee
            /\ saved'.pegkeeper = pegkeeper /\ saved'.loan_fee = loan_fee
      /\ (Running /\ Running' /\ pc' # "prepared" /\ outer' = outer)
         => /\ fl'.pegkeeper = fl.pegkeeper /\ fl'.signer = fl.signer
            /\ fl'.loan_fee = fl.loan_fee /\ saved' = saved
      /\ (pc = "prepared" /\ pc' = "minted")
         => balance' = [balance EXCEPT ![saved.pegkeeper] = @ + fl.amount]
      /\ (pc = "minted" /\ pc' = "returned")
         => /\ \A h \in Holders \ {saved.pegkeeper, Treasury} : balance'[h] = balance[h]
            /\ balance'[Treasury] - balance[Treasury]
                 = balance[saved.pegkeeper] - balance'[saved.pegkeeper]
      /\ pc = "returned"
         => (pc' = "verified"
               <=> balance[Treasury]
                     >= fl.balance_before + fl.amount + saved.loan_fee)
      /\ (pc = "verified" /\ last'.result = "ok")
         => events' = Append(events, <<fl.amount, saved.loan_fee>>) ]_vars

\* a loan has settled although the stored borrower and the stored fee were
\* both changed during its callback
C20_Witness ==
  /\ pc = "idle"
  /\ last.op = "flash_loan"
  /\ last.result = "ok"
  /\ last.amount > 0
  /\ pegkeeper \notin last.auths
  /\ Len(events) = 1
  /\ events[1][2] # loan_fee

====
